---------------------------- MODULE Spec2Model ----------------------------
(***************************************************************************)
(* Model of the Gemma3 chatbot's turn routing (graph.py), its two tools    *)
(* (rag_tool.py, pdf_image_tool.py) and the REPL that drives it (main.py). *)
(*                                                                         *)
(* Text is a sequence of tokens.  A token is a word (a run of \w           *)
(* characters), one punctuation character, one blank, or one of the two    *)
(* fence markers; two word tokens are never adjacent.  The regular         *)
(* expressions and json.loads of graph.py are computed on these tokens.    *)
(*                                                                         *)
(* Two specifications.  Spec is the REPL driving the graph, turn by turn;  *)
(* in it an invocation of rag_search is taken by its outcome (it raises,   *)
(* finds nothing, finds documents).  RetrieverSpec is rag_tool.py on its   *)
(* own, a sequence of rag_search invocations in one process, with the      *)
(* lru_cache of _cached_retriever, the store directory, the index file and *)
(* the embedding backend; its outcomes are those Spec draws from.          *)
(***************************************************************************)
EXTENDS Naturals, Sequences, FiniteSets, TLC

\* ------------------------------------------------------------------ bounds
\* Number of prompts the REPL reads in one run of the process.
MaxTurns == 2
\* Number of rag_search invocations in one run of the process, for the
\* specification of rag_tool.py on its own.
MaxCalls == 4

\* ------------------------------------------------------------------ tokens
\* the double-quote and single-quote characters
DQ == "<dq>"
SQ == "<sq>"
WS == " "
\* the opening marker of a tool_code fence (three backticks and the word
\* tool_code) and the closing marker (three backticks)
FenceOpen == "<fence tool_code>"
FenceClose == "<fence>"
SENTINEL == "No relevant context found"

Punct == {DQ, SQ, WS, ";", ".", "(", ")", "=", "{", "}", ":", ",", "+", FenceOpen, FenceClose}

\* \w+ : a token that is a run of word characters
IsWord(tok) == tok \notin Punct

\* ------------------------------------------------------------------ values
\* Python values that travel as tool names and tool args: str, dict, None, int.
Str(s) == [k |-> "str", s |-> s]
Obj(keys, vals) == [k |-> "obj", keys |-> keys, vals |-> vals]
None == [k |-> "none"]
Num(tok) == [k |-> "num", s |-> tok]
EmptyDict == Obj(<<>>, <<>>)

IsDict(v) == v.k = "obj"
IsStr(v) == v.k = "str"

\* Python truthiness of a value
Truthy(v) ==
    CASE v.k = "str" -> v.s # <<>>
      [] v.k = "obj" -> v.keys # <<>>
      [] v.k = "num" -> v.s # "0"
      [] OTHER -> FALSE

\* dict.get(key): the value of the last occurrence of key, else None
HasKey(d, key) == \E i \in 1..Len(d.keys) : d.keys[i] = key
Get(d, key) ==
    IF HasKey(d, key)
    THEN d.vals[CHOOSE i \in 1..Len(d.keys) :
                    /\ d.keys[i] = key
                    /\ \A j \in (i+1)..Len(d.keys) : d.keys[j] # key]
    ELSE None

\* str(x) of a value, as text
StrOf(v) ==
    CASE v.k = "str" -> v.s
      [] v.k = "num" -> <<v.s>>
      [] v.k = "none" -> <<"None">>
      [] OTHER -> <<"<dict>">>

\* ------------------------------------------------------------------ text helpers
RECURSIVE SkipWS(_, _)
\* the first index >= i of toks that holds no blank (Len+1 when there is none)
SkipWS(toks, i) ==
    IF i <= Len(toks) /\ toks[i] = WS THEN SkipWS(toks, i + 1) ELSE i

RECURSIVE Strip(_)
\* str.strip()
Strip(toks) ==
    IF toks = <<>> THEN <<>>
    ELSE IF Head(toks) = WS THEN Strip(Tail(toks))
    ELSE IF toks[Len(toks)] = WS THEN Strip(SubSeq(toks, 1, Len(toks) - 1))
    ELSE toks

Contains(toks, tok) == \E i \in 1..Len(toks) : toks[i] = tok


\* ------------------------------------------------------------------ json.loads
\* json.loads on a token sequence: strings, objects, null and integers.
\* Each step of the parser is one operator that takes what the step before
\* it produced.
Fail == [ok |-> FALSE, val |-> None, pos |-> 0]
Parsed(v, p) == [ok |-> TRUE, val |-> v, pos |-> p]

\* the index of the first DQ at or after i (0 when there is none)
NextDQ(toks, i) ==
    IF \E j \in i..Len(toks) : toks[j] = DQ
    THEN CHOOSE j \in i..Len(toks) : toks[j] = DQ /\ \A h \in i..(j-1) : toks[h] # DQ
    ELSE 0

\* the string literal that opens at i and closes at j
StringUpTo(toks, i, j) ==
    IF j = 0 THEN Fail ELSE Parsed(Str(SubSeq(toks, i + 1, j - 1)), j + 1)

\* a JSON string literal starting at i (toks[i] is to be the opening quote)
ParseString(toks, i) ==
    IF i <= Len(toks) /\ toks[i] = DQ THEN StringUpTo(toks, i, NextDQ(toks, i + 1)) ELSE Fail

\* the integer literals the model writes
NumberTokens == {"0", "1", "4", "30"}

RECURSIVE ParseValue(_, _), ParseValueAt(_, _), ParseObject(_, _), ParseMembers(_, _, _, _)
RECURSIVE MemberKey(_, _, _, _), MemberColon(_, _, _, _), MemberValue(_, _, _, _)
RECURSIVE MemberEnd(_, _, _, _)

\* a JSON value starting at or after i (leading blanks skipped)
ParseValue(toks, i) == ParseValueAt(toks, SkipWS(toks, i))

ParseValueAt(toks, p) ==
    IF p > Len(toks) THEN Fail
    ELSE IF toks[p] = DQ THEN ParseString(toks, p)
    ELSE IF toks[p] = "null" THEN Parsed(None, p + 1)
    ELSE IF toks[p] \in NumberTokens THEN Parsed(Num(toks[p]), p + 1)
    ELSE IF toks[p] = "{" THEN ParseObject(toks, SkipWS(toks, p + 1))
    ELSE Fail

\* an object whose first token after the opening brace is at q
ParseObject(toks, q) ==
    IF q <= Len(toks) /\ toks[q] = "}" THEN Parsed(EmptyDict, q + 1)
    ELSE ParseMembers(toks, q, <<>>, <<>>)

\* the members of an object from i on, up to and including its closing brace
ParseMembers(toks, i, keys, vals) ==
    MemberKey(toks, ParseString(toks, SkipWS(toks, i)), keys, vals)

MemberKey(toks, key, keys, vals) ==
    IF ~key.ok THEN Fail
    ELSE MemberColon(toks, SkipWS(toks, key.pos), Append(keys, key.val.s), vals)

MemberColon(toks, c, keys, vals) ==
    IF c <= Len(toks) /\ toks[c] = ":"
    THEN MemberValue(toks, ParseValue(toks, c + 1), keys, vals)
    ELSE Fail

MemberValue(toks, v, keys, vals) ==
    IF ~v.ok THEN Fail
    ELSE MemberEnd(toks, SkipWS(toks, v.pos), keys, Append(vals, v.val))

MemberEnd(toks, e, keys, vals) ==
    IF e > Len(toks) THEN Fail
    ELSE IF toks[e] = "}" THEN Parsed(Obj(keys, vals), e + 1)
    ELSE IF toks[e] = "," THEN ParseMembers(toks, e + 1, keys, vals)
    ELSE Fail

\* the whole text must be one value
WholeValue(toks, v) ==
    IF v.ok /\ SkipWS(toks, v.pos) = Len(toks) + 1 THEN v ELSE Fail

\* json.loads(text); not ok models the raised error
json_loads(toks) == WholeValue(toks, ParseValue(toks, 1))

\* ------------------------------------------------------------------ the fence
\* an opening marker at i that is followed by at least one token and then a
\* closing marker
FenceAt(text, i) ==
    text[i] = FenceOpen /\ \E j \in (i+2)..Len(text) : text[j] = FenceClose

\* _TOOL_FENCE.search(text): the leftmost match.  0 when there is no match.
FenceStart(text) ==
    IF \E i \in 1..Len(text) : FenceAt(text, i)
    THEN CHOOSE i \in 1..Len(text) : FenceAt(text, i) /\ \A h \in 1..(i-1) : ~FenceAt(text, h)
    ELSE 0

\* the closing marker the lazy group (.+?) stops at: the first one that leaves
\* the group at least one token
FenceEnd(text, i) ==
    CHOOSE j \in (i+2)..Len(text) :
        text[j] = FenceClose /\ \A h \in (i+2)..(j-1) : text[h] # FenceClose

GroupOne(text, i) == SubSeq(text, i + 1, FenceEnd(text, i) - 1)

\* m.group(1).strip()
FenceBody(text) == Strip(GroupOne(text, FenceStart(text)))

_has_tool_fence(text) == FenceStart(text) # 0

\* ------------------------------------------------------------------ call patterns
NoMatch == [ok |-> FALSE, query |-> <<>>]

\* the index of the first quote character at or after i (0 when there is none)
NextQuote(body, i) ==
    IF \E j \in i..Len(body) : body[j] \in {DQ, SQ}
    THEN CHOOSE j \in i..Len(body) :
            body[j] \in {DQ, SQ} /\ \A h \in i..(j-1) : body[h] \notin {DQ, SQ}
    ELSE 0

\* \s*\)  after the closing quote at r; the group is what the quotes enclose
MatchClose(body, q, r, c) ==
    IF c <= Len(body) /\ body[c] = ")"
    THEN [ok |-> TRUE, query |-> SubSeq(body, q + 1, r - 1)]
    ELSE NoMatch

\* ([^'"]+)['"]  after the opening quote at q: r is the next quote
MatchGroup(body, q, r) ==
    IF r = 0 \/ r = q + 1 THEN NoMatch ELSE MatchClose(body, q, r, SkipWS(body, r + 1))

\* ['"]([^'"]+)['"]\s*\)  with the opening quote expected at index q
MatchQuoted(body, q) ==
    IF q <= Len(body) /\ body[q] \in {DQ, SQ}
    THEN MatchGroup(body, q, NextQuote(body, q + 1))
    ELSE NoMatch

\* (?:query\s*=\s*)?  at index a, the "=" expected at index eq
MatchQuery(body, a, eq) ==
    IF a <= Len(body) /\ body[a] = "query" /\ eq <= Len(body) /\ body[eq] = "="
    THEN MatchQuoted(body, SkipWS(body, eq + 1))
    ELSE MatchQuoted(body, a)

MatchArgs(body, a) == MatchQuery(body, a, SkipWS(body, a + 1))

\* \s*\(\s*  with the parenthesis expected at index paren
MatchParen(body, paren) ==
    IF paren <= Len(body) /\ body[paren] = "("
    THEN MatchArgs(body, SkipWS(body, paren + 1))
    ELSE NoMatch

\* (?:\.\w+)?  after the name at p: the index that follows it
AfterName(body, p) ==
    IF p + 2 <= Len(body) /\ body[p+1] = "." /\ IsWord(body[p+2]) THEN p + 3 ELSE p + 1

\* MatchAt with the tool name of the pattern left unchecked: any identifier
\* in call position matches
MatchAt_AnyName(body, p, tool_name) ==
    IF IsWord(body[p]) /\ (p = 1 \/ body[p-1] \in {WS, ";"})
    THEN MatchParen(body, SkipWS(body, AfterName(body, p)))
    ELSE NoMatch

\* (?:^|[\s;])NAME(?:\.\w+)?\s*\(\s*(?:query\s*=\s*)?['"]([^'"]+)['"]\s*\)
\* with NAME expected at index p
MatchAt(body, p, tool_name) ==
    IF body[p] = tool_name /\ (p = 1 \/ body[p-1] \in {WS, ";"})
    THEN MatchParen(body, SkipWS(body, AfterName(body, p)))
    ELSE NoMatch

MatchPositions(body, tool_name) == {p \in 1..Len(body) : MatchAt(body, p, tool_name).ok}

LeftMost(ps) == CHOOSE p \in ps : \A h \in ps : p <= h

SearchIn(body, tool_name, ps) ==
    IF ps = {} THEN NoMatch ELSE MatchAt(body, LeftMost(ps), tool_name)

\* re.search(pat, body): the leftmost position where the pattern matches
SearchPattern(body, tool_name) == SearchIn(body, tool_name, MatchPositions(body, tool_name))

\* the code-like patterns, in declaration order
patterns == <<"rag_search", "vision_pdf_search">>

NoInvocation == [found |-> FALSE, name |-> None, args |-> None]
Invocation(name, args) == [found |-> TRUE, name |-> name, args |-> args]

QueryArgs(text) == Obj(<< <<"query">> >>, << Str(text) >>)

\* the loop over the patterns: the first pattern that matches wins
FirstPattern(m1, m2) ==
    IF m1.ok THEN Invocation(Str(<<patterns[1]>>), QueryArgs(m1.query))
    ELSE IF m2.ok THEN Invocation(Str(<<patterns[2]>>), QueryArgs(m2.query))
    ELSE NoInvocation

MatchPatterns(body) ==
    FirstPattern(SearchPattern(body, patterns[1]), SearchPattern(body, patterns[2]))

\* name = data.get("name"); params = data.get("parameters", {}) or {}
NameAndParams(name, params) ==
    IF Truthy(name)
    THEN Invocation(name, IF Truthy(params) THEN params ELSE EmptyDict)
    ELSE NoInvocation

\* the JSON attempt: data.get on anything but a dict raises and is swallowed
JsonData(data) ==
    IF data.ok /\ IsDict(data.val)
    THEN NameAndParams(Get(data.val, <<"name">>), Get(data.val, <<"parameters">>))
    ELSE NoInvocation

JsonInvocation(body) == JsonData(json_loads(body))

\* JsonThenPatterns with the patterns tried before the JSON attempt
PatternsThenJson(json, pat) == IF pat.found THEN pat ELSE json

\* JSON first, then the patterns
JsonThenPatterns(json, pat) == IF json.found THEN json ELSE pat

ExtractFromBody(body) == JsonThenPatterns(JsonInvocation(body), MatchPatterns(body))

_extract_tool_invocation_from_fence(text) ==
    IF text = <<>> \/ ~_has_tool_fence(text) THEN NoInvocation
    ELSE ExtractFromBody(FenceBody(text))

\* ------------------------------------------------------------------ messages
HumanMessage(content) == [type |-> "human", content |-> content, tool_calls |-> <<>>]
SystemMessage(content) == [type |-> "system", content |-> content, tool_calls |-> <<>>]
AIMessage(content, tool_calls) == [type |-> "ai", content |-> content, tool_calls |-> tool_calls]
ToolMessage(content) == [type |-> "tool", content |-> content, tool_calls |-> <<>>]

POLICY == <<"You are a helpful assistant with two tools">>

\* policy_node: the update it returns
policy_node == <<SystemMessage(POLICY)>>

\* add_messages as a state key without reducer would behave: the update
\* overwrites the value
add_messages_Overwrite(left, right) == right

\* add_messages: the reducer of State.messages; new messages carry fresh ids,
\* so the update is appended
add_messages(left, right) == left \o right

\* _last_user_text: the content of the most recent human message, "" when it
\* is empty or when there is no human message
_last_user_text(msgs) ==
    IF \E i \in 1..Len(msgs) : msgs[i].type \in {"human", "user"}
    THEN msgs[CHOOSE i \in 1..Len(msgs) :
                /\ msgs[i].type \in {"human", "user"}
                /\ \A j \in (i+1)..Len(msgs) : msgs[j].type \notin {"human", "user"}].content
    ELSE <<>>

\* ------------------------------------------------------------------ tools
\* What a tool invocation leaves behind: whether it raised, its output, and
\* the record of the invocation.
ToolRaised(tool, input) ==
    [raised |-> TRUE, out |-> <<>>,
     log |-> <<[tool |-> tool, input |-> input, raised |-> TRUE, out |-> <<>>]>>]
ToolReturned(tool, input, out) ==
    [raised |-> FALSE, out |-> out,
     log |-> <<[tool |-> tool, input |-> input, raised |-> FALSE, out |-> out]>>]

\* the input schema both tools share: a dict with a str under "query"
ValidInput(input) == IsDict(input) /\ HasKey(input, <<"query">>) /\ IsStr(Get(input, <<"query">>))

RECURSIVE Snippets(_)
\* the lines rag_tool builds, one per retrieved document (the documents of
\* the model are shorter than the 500 characters a snippet keeps)
Snippets(docs) ==
    IF docs = <<>> THEN <<>>
    ELSE <<"- [", "doc", "]">> \o Strip(Head(docs)) \o <<"...">> \o Snippets(Tail(docs))

\* rag_tool body: env.docs is what the retriever returns for the query,
\* env.raises that the retriever (its embedding backend) raised instead
rag_tool(query, env) ==
    IF env.docs = <<>>
    THEN <<"CONTEXT:", "(", SENTINEL, ".)">>
    ELSE <<"CONTEXT:">> \o Snippets(env.docs)

\* rag_tool.invoke(input)
rag_tool_invoke(input, env) ==
    IF ~ValidInput(input) \/ env.raises
    THEN ToolRaised("rag_search", input)
    ELSE ToolReturned("rag_search", input, rag_tool(Get(input, <<"query">>).s, env))

\* vision_pdf_search body: env.pdfs says whether a PDF was found under ./docs,
\* env.pages whether any page of it was rendered, env.answer is what the
\* vision model read from the pages
vision_pdf_search(query, env) ==
    IF ~env.pdfs
    THEN <<"CONTEXT (vision): No PDFs found under ./docs.">>
    ELSE IF ~env.pages
    THEN <<"CONTEXT (vision): Could not render any pages from PDFs.">>
    ELSE <<"CONTEXT (vision from", "pages", "):">> \o env.answer

\* vision_pdf_search.invoke(input)
vision_pdf_search_invoke(input, env) ==
    IF ~ValidInput(input) \/ env.raises
    THEN ToolRaised("vision_pdf_search", input)
    ELSE ToolReturned("vision_pdf_search", input,
                      vision_pdf_search(Get(input, <<"query">>).s, env))

\* ------------------------------------------------------------------ models
\* llm.invoke as a model that answers with a structured call would behave
llm_invoke_WithCall(msgs, content) ==
    AIMessage(content, <<[name |-> Str(<<"rag_search">>), args |-> EmptyDict]>>)

\* llm.invoke: the model without tool binding; content is the model's choice
llm_invoke(msgs, content) == AIMessage(content, <<>>)

\* ------------------------------------------------------------------ grounding
\* What a run of a node function leaves behind: whether an exception left it,
\* the messages it returns, the tool invocations and plain model invocations
\* it made (each with its input), and the return site.
Raised(log, site) == [raised |-> TRUE, msgs |-> <<>>, log |-> log, llm |-> <<>>, site |-> site]
Returned(msgs, log, llm, site) ==
    [raised |-> FALSE, msgs |-> msgs, log |-> log, llm |-> llm, site |-> site]

\* VisionOutcome with the except branch returning the plain rag_search
\* context, the note that vision failed left out
VisionOutcome_NoNote(rag_out, vis) ==
    IF vis.raised
    THEN [ctx |-> <<"CONTEXT from", "rag_search", ":">> \o rag_out, log |-> vis.log]
    ELSE [ctx |-> <<"CONTEXT from", "vision_pdf_search", ":">> \o vis.out, log |-> vis.log]

\* the except and the return after the try of _vision_if_empty
VisionOutcome(rag_out, vis) ==
    IF vis.raised
    THEN [ctx |-> <<"CONTEXT from", "rag_search", "(vision failed:", "error", "):">> \o rag_out,
          log |-> vis.log]
    ELSE [ctx |-> <<"CONTEXT from", "vision_pdf_search", ":">> \o vis.out, log |-> vis.log]

\* _vision_if_empty: the grounding context and the tool invocations it made
_vision_if_empty(query, rag_out, venv) ==
    IF Contains(rag_out, SENTINEL)
    THEN VisionOutcome(rag_out, vision_pdf_search_invoke(QueryArgs(query), venv))
    ELSE [ctx |-> <<"CONTEXT from", "rag_search", ":">> \o rag_out, log |-> <<>>]

\* args if isinstance(args, dict) else {"query": str(args)}
ToolInput(args) == IF IsDict(args) THEN args ELSE QueryArgs(StrOf(args))

\* Grounded with the grounding context returned for the history along with
\* the answer
Grounded_StoreCtx(state_msgs, ctx, log, content, site) ==
    Returned(<<SystemMessage(ctx), llm_invoke(Append(state_msgs, SystemMessage(ctx)), content)>>,
             log, <<Append(state_msgs, SystemMessage(ctx))>>, site)

\* final = llm.invoke(state_msgs + [system ctx]); return {"messages": [final]}
Grounded(state_msgs, ctx, log, content, site) ==
    Returned(<<llm_invoke(Append(state_msgs, SystemMessage(ctx)), content)>>,
             log, <<Append(state_msgs, SystemMessage(ctx))>>, site)

\* after rag_tool.invoke returned out (or raised): the escalation
AfterRag(state_msgs, out, g, content, site) ==
    IF out.raised THEN Raised(out.log, site)
    ELSE Grounded(state_msgs, g.ctx, out.log \o g.log, content, site)

\* after vision_pdf_search.invoke returned out (or raised)
AfterVision(state_msgs, out, content, site) ==
    IF out.raised THEN Raised(out.log, site)
    ELSE Grounded(state_msgs, <<"CONTEXT from", "vision_pdf_search", ":">> \o out.out,
                  out.log, content, site)

\* the rag_search branch, out being what rag_tool.invoke did
RagBranch(state_msgs, user_q, out, venv, content, site) ==
    AfterRag(state_msgs, out, _vision_if_empty(user_q, out.out, venv), content, site)

UnknownTool(tool_name) == AIMessage(<<"(Unknown tool">> \o StrOf(tool_name) \o <<")">>, <<>>)

\* _run_tool_and_respond with the escalation given the query of the tool args
\* instead of the last user text
RunTool_ArgsQuery(state_msgs, tool_name, args, renv, venv, content, site) ==
    IF tool_name = Str(<<"rag_search">>)
    THEN RagBranch(state_msgs, StrOf(Get(ToolInput(args), <<"query">>)),
                   rag_tool_invoke(ToolInput(args), renv), venv, content, site)
    ELSE IF tool_name = Str(<<"vision_pdf_search">>)
    THEN AfterVision(state_msgs, vision_pdf_search_invoke(ToolInput(args), venv), content, site)
    ELSE Returned(<<UnknownTool(tool_name)>>, <<>>, <<>>, site)

\* _run_tool_and_respond with a name outside the registry run as rag_search
RunTool_UnknownAsRag(state_msgs, tool_name, args, renv, venv, content, site) ==
    IF tool_name = Str(<<"vision_pdf_search">>)
    THEN AfterVision(state_msgs, vision_pdf_search_invoke(ToolInput(args), venv), content, site)
    ELSE RagBranch(state_msgs, _last_user_text(state_msgs),
                   rag_tool_invoke(ToolInput(args), renv), venv, content, site)

_run_tool_and_respond(state_msgs, tool_name, args, renv, venv, content, site) ==
    IF tool_name = Str(<<"rag_search">>)
    THEN RagBranch(state_msgs, _last_user_text(state_msgs),
                   rag_tool_invoke(ToolInput(args), renv), venv, content, site)
    ELSE IF tool_name = Str(<<"vision_pdf_search">>)
    THEN AfterVision(state_msgs, vision_pdf_search_invoke(ToolInput(args), venv), content, site)
    ELSE Returned(<<UnknownTool(tool_name)>>, <<>>, <<>>, site)

\* the soft fallback of the fence-only and of the blank branch, for a
\* non-empty user_q: rag_tool.invoke({"query": user_q}), then as RagBranch
SoftFallback(state_msgs, user_q, renv, venv, content, site) ==
    RagBranch(state_msgs, user_q, rag_tool_invoke(QueryArgs(user_q), renv), venv, content, site)

\* a str args is decoded as JSON, and kept as {"query": args} when it does
\* not decode
DecodedArgs(args, decoded) ==
    IF decoded.ok THEN decoded.val ELSE Obj(<< <<"query">> >>, << args >>)

\* args of a structured call: call["args"] or {}
CallArgs(call) ==
    IF ~Truthy(call.args) THEN EmptyDict
    ELSE IF IsStr(call.args) THEN DecodedArgs(call.args, json_loads(call.args.s))
    ELSE call.args

COULD_NOT == <<"I couldn't generate a response. Try rephrasing your question.">>

\* branch B and the fence-only fallback: tc is what the fence yielded
FencedBranch(state_msgs, resp, tc, user_q, renv, venv, content) ==
    IF tc.found
    THEN _run_tool_and_respond(state_msgs, tc.name, tc.args, renv, venv, content, "B")
    ELSE IF _has_tool_fence(resp.content)
    THEN IF user_q # <<>>
         THEN SoftFallback(state_msgs, user_q, renv, venv, content, "fence")
         ELSE Returned(<<resp>>, <<>>, <<>>, "fence")
    ELSE Returned(<<resp>>, <<>>, <<>>, "C")

\* Classify with the last structured call honoured instead of the first
Classify_LastCall(state_msgs, resp, user_q, renv, venv, content) ==
    IF resp.content # <<>>
    THEN IF resp.tool_calls # <<>>
         THEN _run_tool_and_respond(state_msgs, resp.tool_calls[Len(resp.tool_calls)].name,
                                    CallArgs(resp.tool_calls[Len(resp.tool_calls)]),
                                    renv, venv, content, "A")
         ELSE FencedBranch(state_msgs, resp, _extract_tool_invocation_from_fence(resp.content),
                           user_q, renv, venv, content)
    ELSE IF user_q # <<>>
         THEN SoftFallback(state_msgs, user_q, renv, venv, content, "D")
         ELSE Returned(<<AIMessage(COULD_NOT, <<>>)>>, <<>>, <<>>, "D")

\* Classify with the blank branch running the soft fallback without looking
\* at user_q
Classify_NoUserCheck(state_msgs, resp, user_q, renv, venv, content) ==
    IF resp.content # <<>>
    THEN IF resp.tool_calls # <<>>
         THEN _run_tool_and_respond(state_msgs, resp.tool_calls[1].name,
                                    CallArgs(resp.tool_calls[1]), renv, venv, content, "A")
         ELSE FencedBranch(state_msgs, resp, _extract_tool_invocation_from_fence(resp.content),
                           user_q, renv, venv, content)
    ELSE SoftFallback(state_msgs, user_q, renv, venv, content, "D")

\* the body of chatbot after resp = llm_with_tools.invoke(state["messages"]);
\* user_q is _last_user_text(state["messages"])
Classify(state_msgs, resp, user_q, renv, venv, content) ==
    IF resp.content # <<>>
    THEN IF resp.tool_calls # <<>>
         THEN _run_tool_and_respond(state_msgs, resp.tool_calls[1].name,
                                    CallArgs(resp.tool_calls[1]), renv, venv, content, "A")
         ELSE FencedBranch(state_msgs, resp, _extract_tool_invocation_from_fence(resp.content),
                           user_q, renv, venv, content)
    ELSE IF user_q # <<>>
         THEN SoftFallback(state_msgs, user_q, renv, venv, content, "D")
         ELSE Returned(<<AIMessage(COULD_NOT, <<>>)>>, <<>>, <<>>, "D")

\* chatbot: resp is what llm_with_tools.invoke(state["messages"]) returned
chatbot(state_msgs, resp, renv, venv, content) ==
    Classify(state_msgs, resp, _last_user_text(state_msgs), renv, venv, content)

\* tools_condition: where the conditional edge after chatbot leads
tools_condition(msgs) ==
    IF msgs # <<>> /\ msgs[Len(msgs)].type = "ai" /\ msgs[Len(msgs)].tool_calls # <<>>
    THEN "tools" ELSE "__end__"

RECURSIVE tool_node(_)
\* ToolNode: one tool message per call of the last AI message
tool_node(calls) ==
    IF calls = <<>> THEN <<>>
    ELSE <<ToolMessage(StrOf(calls[1].name))>> \o tool_node(Tail(calls))

\* ------------------------------------------------------------------ inputs
\* what the user types at the prompt (an empty line included; "quit" ends
\* the REPL and starts no turn)
UserInputs == {<<>>, <<"refunds?">>, <<"hours?">>}

CallQ == <<"refund", WS, "policy">>
OtherQ == <<"scanned", WS, "table">>
FenceQ == <<"opening", WS, "hours">>

Call(name, args) == [name |-> Str(<<name>>), args |-> args]
Fenced(body) == <<"Sure", WS, FenceOpen, WS>> \o body \o <<WS, FenceClose>>
JsonBody(name, params) ==
    <<"{", DQ, "name", DQ, ":", WS, DQ, name, DQ, ",", WS, DQ, "parameters", DQ, ":", WS>>
        \o params \o <<"}">>
JsonQuery(q) == <<"{", DQ, "query", DQ, ":", WS, DQ>> \o q \o <<DQ, "}">>

\* the two bare call forms of a fence body: NAME("q") and NAME(query="q")
PositionalCall(name, q) == <<name, "(", DQ>> \o q \o <<DQ, ")">>
KeywordCall(name, q) == <<name, "(", "query", "=", DQ>> \o q \o <<DQ, ")">>
\* the print form: print(NAME.method(query="q"))
PrintCall(name, q) ==
    <<"print", "(", name, ".", "search_docs", "(", "query", "=", DQ>> \o q \o <<DQ, ")", ")">>

\* query texts with punctuation: a comma, and an apostrophe
PunctQ == <<"refunds", ",", WS, "please">>
ApostropheQ == <<"it", SQ, "s", WS, "open">>

\* what the tool-bound model may return: structured calls (with and without
\* text), fenced invocations in every form, fences that yield nothing, plain
\* text and a blank
StructuredResponses ==
    { AIMessage(<<"Calling">>, <<Call("rag_search", QueryArgs(CallQ))>>),
      AIMessage(<<"Calling">>, <<Call("vision_pdf_search", QueryArgs(CallQ))>>),
      AIMessage(<<>>, <<Call("vision_pdf_search", QueryArgs(CallQ))>>),
      AIMessage(<<>>, <<Call("rag_search", QueryArgs(CallQ))>>),
      AIMessage(Fenced(<<"vision_pdf_search", "(", DQ>> \o FenceQ \o <<DQ, ")">>),
                <<Call("rag_search", QueryArgs(CallQ)),
                  Call("vision_pdf_search", QueryArgs(OtherQ))>>),
      AIMessage(Fenced(JsonBody("rag_search", JsonQuery(FenceQ))),
                <<Call("vision_pdf_search", QueryArgs(CallQ)),
                  Call("rag_search", QueryArgs(OtherQ))>>),
      AIMessage(<<"Calling">>, <<Call("calculator", QueryArgs(CallQ))>>),
      AIMessage(<<"Calling">>, <<Call("rag_search", EmptyDict)>>),
      AIMessage(<<"Calling">>, <<Call("rag_search", Str(CallQ))>>),
      AIMessage(<<"Calling">>,
                <<Call("vision_pdf_search", Str(JsonQuery(CallQ)))>>) }

\* fences that name an unknown tool, as JSON and as a call, and a fence of
\* free text
UnknownJsonFence == AIMessage(Fenced(JsonBody("calculator", JsonQuery(FenceQ))), <<>>)
UnknownCallFence == AIMessage(Fenced(<<"calculator", "(", DQ, "1", "+", "1", DQ, ")">>), <<>>)
FreeTextFence == AIMessage(Fenced(<<"sorry", WS, "no", WS, "tool">>), <<>>)

\* a JSON fence naming vision_pdf_search whose query text reads like a call of
\* rag_search, and a JSON fence whose parameters hold a second key
PatternLikeQ == <<"see", WS, "rag_search", "(", SQ, "refund", SQ, ")">>
JsonOverPattern == AIMessage(Fenced(JsonBody("vision_pdf_search", JsonQuery(PatternLikeQ))), <<>>)
JsonTwoKeys ==
    AIMessage(Fenced(JsonBody("rag_search",
                              <<"{", DQ, "query", DQ, ":", WS, DQ>> \o CallQ
                                  \o <<DQ, ",", WS, DQ, "k", DQ, ":", WS, "1", "}">>)), <<>>)

FencedResponses ==
    { JsonOverPattern,
      JsonTwoKeys, AIMessage(Fenced(KeywordCall("rag_search", FenceQ)), <<>>),
      AIMessage(Fenced(PositionalCall("vision_pdf_search", PunctQ)), <<>>),
      AIMessage(Fenced(<<"vision_pdf_search", "(", SQ>> \o FenceQ \o <<SQ, ")">>), <<>>),
      AIMessage(Fenced(JsonBody("rag_search", JsonQuery(FenceQ))), <<>>),
      AIMessage(Fenced(JsonBody("vision_pdf_search", <<"{", "}">>)), <<>>),
      UnknownJsonFence,
      UnknownCallFence,
      FreeTextFence,
      AIMessage(Fenced(PrintCall("rag_search", FenceQ)), <<>>),
      AIMessage(Fenced(PrintCall("vision_pdf_search", FenceQ)), <<>>),
      AIMessage(Fenced(PositionalCall("rag_search", ApostropheQ)), <<>>) }

PlainResponses == { AIMessage(<<"Hello">>, <<>>), AIMessage(<<>>, <<>>) }

Responses == StructuredResponses \cup FencedResponses \cup PlainResponses

\* what the retriever does for a query: raises, finds nothing, finds a
\* document, finds a document whose text holds the sentinel phrase
RagEnvs ==
    { [raises |-> TRUE, docs |-> <<>>],
      [raises |-> FALSE, docs |-> <<>>],
      [raises |-> FALSE, docs |-> << <<"refunds", WS, "within", WS, "30", WS, "days">> >>],
      [raises |-> FALSE, docs |-> << <<"FAQ:", WS, SENTINEL>> >>] }

\* what the vision tool does: raises, finds no PDF, renders no page, answers
\* from the pages
VisionEnvs ==
    { [raises |-> TRUE, pdfs |-> FALSE, pages |-> FALSE, answer |-> <<>>],
      [raises |-> FALSE, pdfs |-> FALSE, pages |-> FALSE, answer |-> <<>>],
      [raises |-> FALSE, pdfs |-> TRUE, pages |-> FALSE, answer |-> <<>>],
      [raises |-> FALSE, pdfs |-> TRUE, pages |-> TRUE,
       answer |-> <<"the", WS, "table", WS, "says", WS, "30">>] }

\* what the plain model may answer: a text or nothing
FinalContents == { <<"Grounded", WS, "answer">>, <<>> }

\* ------------------------------------------------------------------ the retriever of rag_tool.py
STORE_DIR == "./rag_store"
\* the default of the parameter k of rag_tool and of load_retriever
DefaultK == 4
\* lru_cache(maxsize=1)
CacheMaxSize == 1

\* k or 4
KOrDefault(k) == IF k = 0 THEN DefaultK ELSE k

_EmptyRetriever == [kind |-> "empty", k |-> 0]
\* vs.as_retriever(search_type="similarity", search_kwargs={"k": k})
FaissRetriever(k) == [kind |-> "faiss", k |-> k]

\* the body of _cached_retriever: env.isdir is os.path.isdir(store_path),
\* env.loadable that FAISS.load_local returns instead of raising
_cached_retriever(store_path, k, env) ==
    IF ~env.isdir THEN _EmptyRetriever
    ELSE IF ~env.loadable THEN _EmptyRetriever
    ELSE FaissRetriever(k)

\* the lru_cache around _cached_retriever: its entries, least recently used
\* first, each a key (the arguments) and the value returned for it
CacheHas(cache, key) == \E i \in 1..Len(cache) : cache[i].key = key
CacheIndex(cache, key) == CHOOSE i \in 1..Len(cache) : cache[i].key = key
CacheWithout(cache, i) == SubSeq(cache, 1, i - 1) \o SubSeq(cache, i + 1, Len(cache))
\* a hit makes the entry the most recently used
CacheTouch(cache, i) == Append(CacheWithout(cache, i), cache[i])
\* a miss stores the new entry and evicts the least recently used one when
\* the cache is over its size
CacheEvict(cache) == IF Len(cache) > CacheMaxSize THEN Tail(cache) ELSE cache
CachePut(cache, key, val) == CacheEvict(Append(cache, [key |-> key, val |-> val]))

\* a call of the cached function: the retriever it returns, the cache it
\* leaves, and whether the body ran and loaded the index
CacheHit(cache, i) ==
    [retriever |-> cache[i].val, cache |-> CacheTouch(cache, i), miss |-> FALSE, loaded |-> FALSE]
CacheMiss(cache, key, val) ==
    [retriever |-> val, cache |-> CachePut(cache, key, val), miss |-> TRUE,
     loaded |-> val.kind = "faiss"]

\* load_retriever(store_path, k)
load_retriever(cache, store_path, k, env) ==
    IF CacheHas(cache, <<store_path, k>>)
    THEN CacheHit(cache, CacheIndex(cache, <<store_path, k>>))
    ELSE CacheMiss(cache, <<store_path, k>>, _cached_retriever(store_path, k, env))

\* retriever.get_relevant_documents(query): the empty retriever returns [];
\* the FAISS retriever embeds the query with the embedding backend
\* (env.backend: it is reachable) and returns the nearest documents, at
\* most k of them
get_relevant_documents(retriever, query, env) ==
    IF retriever.kind = "empty" THEN [raised |-> FALSE, docs |-> <<>>]
    ELSE IF ~env.backend THEN [raised |-> TRUE, docs |-> <<>>]
    ELSE [raised |-> FALSE, docs |-> SubSeq(env.docs, 1, IF Len(env.docs) < retriever.k
                                                          THEN Len(env.docs) ELSE retriever.k)]

\* rag_tool from the documents on: the text it returns, or the exception of
\* get_relevant_documents, which nothing in rag_tool catches
RagToolOutcome(query, got) ==
    IF got.raised THEN [raised |-> TRUE, out |-> <<>>]
    ELSE [raised |-> FALSE, out |-> rag_tool(query, [raises |-> FALSE, docs |-> got.docs])]

\* rag_tool(query, k) given the cache: ld is what load_retriever did
RagToolWith(query, ld, env) ==
    [cache |-> ld.cache, miss |-> ld.miss, loaded |-> ld.loaded, retriever |-> ld.retriever,
     result |-> RagToolOutcome(query, get_relevant_documents(ld.retriever, query, env))]

RagToolRun(query, k, cache, env) ==
    RagToolWith(query, load_retriever(cache, STORE_DIR, KOrDefault(k), env), env)

\* the k a caller passes: none (0 stands for None and for 0), 2, 4
KArgs == {0, 2, 4}
\* the values of k that reach load_retriever
Ks == {KOrDefault(k) : k \in KArgs}

\* the environment of one invocation: the store directory, the index file,
\* the embedding backend, and the documents nearest to the query
RetrieverEnvs ==
    [isdir : BOOLEAN, loadable : BOOLEAN, backend : BOOLEAN,
     docs : { <<>>, << <<"refunds", WS, "within", WS, "30", WS, "days">> >> }]

\* ------------------------------------------------------------------ state
VARIABLES
    retriever_cache,  \* the lru_cache of _cached_retriever
    index_loads,      \* per k, how many times the index was loaded for (STORE_DIR, k)
    rag_calls,        \* rag_tool invocations so far
    rag_last          \* the last rag_tool invocation: its k, environment and outcome

retriever_vars == <<retriever_cache, index_loads, rag_calls, rag_last>>

NoRagCall ==
    [k |-> 0, env |-> [isdir |-> FALSE, loadable |-> FALSE, backend |-> FALSE, docs |-> <<>>],
     miss |-> FALSE, loaded |-> FALSE, retriever |-> _EmptyRetriever,
     result |-> [raised |-> FALSE, out |-> <<>>]]

VARIABLES
    messages,      \* the checkpointed history of the session THREAD_ID
    pc,            \* "input" (REPL prompt), "policy", "chatbot", "route", "raised"
    turn,          \* prompts read so far
    turn_start,    \* Len(messages) when the current turn began
    resp,          \* what llm_with_tools.invoke returned in this turn
    bound_calls,   \* llm_with_tools.invoke calls of this turn
    chatbot_runs,  \* runs of the chatbot node in this turn
    tool_log,      \* tool invocations of this turn, in order
    llm_inputs,    \* inputs of the llm.invoke calls of this turn, in order
    site           \* the branch of chatbot that ended the last run

graph_vars == <<messages, pc, turn, turn_start, resp, bound_calls, chatbot_runs,
                tool_log, llm_inputs, site>>

vars == <<graph_vars, retriever_vars>>

NoResp == AIMessage(<<"<none>">>, <<>>)

Init ==
    /\ messages = <<>>
    /\ pc = "input"
    /\ turn = 0
    /\ turn_start = 0
    /\ resp = NoResp
    /\ bound_calls = 0
    /\ chatbot_runs = 0
    /\ tool_log = <<>>
    /\ llm_inputs = <<>>
    /\ site = "none"
    /\ retriever_cache = <<>>
    /\ index_loads = [k \in Ks |-> 0]
    /\ rag_calls = 0
    /\ rag_last = NoRagCall

\* main / stream_with_debug: a prompt is read and the graph is started on it
ReadPrompt ==
    /\ pc = "input"
    /\ turn < MaxTurns
    /\ \E user_input \in UserInputs :
          messages' = add_messages(messages, <<HumanMessage(user_input)>>)
    /\ pc' = "policy"
    /\ turn' = turn + 1
    /\ turn_start' = Len(messages)
    /\ resp' = NoResp
    /\ bound_calls' = 0
    /\ chatbot_runs' = 0
    /\ tool_log' = <<>>
    /\ llm_inputs' = <<>>
    /\ site' = "none"
    /\ UNCHANGED retriever_vars

\* the entry node
Policy ==
    /\ pc = "policy"
    /\ messages' = add_messages(messages, policy_node)
    /\ pc' = "chatbot"
    /\ UNCHANGED <<turn, turn_start, resp, bound_calls, chatbot_runs, tool_log, llm_inputs, site>>
    /\ UNCHANGED retriever_vars

\* what a run of chatbot() does to the state: an exception leaves the node,
\* the graph and the REPL; otherwise the returned messages are appended
ChatbotRan(r, run) ==
    /\ resp' = r
    /\ tool_log' = tool_log \o run.log
    /\ llm_inputs' = llm_inputs \o run.llm
    /\ site' = run.site
    /\ pc' = IF run.raised THEN "raised" ELSE "route"
    /\ messages' = IF run.raised THEN messages ELSE add_messages(messages, run.msgs)

\* the chatbot node: one tool-bound model call, then the whole of chatbot()
Chatbot ==
    /\ pc = "chatbot"
    /\ \E r \in Responses, renv \in RagEnvs, venv \in VisionEnvs, content \in FinalContents :
          ChatbotRan(r, chatbot(messages, r, renv, venv, content))
    /\ bound_calls' = bound_calls + 1
    /\ chatbot_runs' = chatbot_runs + 1
    /\ UNCHANGED <<turn, turn_start>>
    /\ UNCHANGED retriever_vars

\* the conditional edge after chatbot, and the ToolNode when it leads there
Route ==
    /\ pc = "route"
    /\ IF tools_condition(messages) = "tools"
       THEN /\ messages' = add_messages(messages, tool_node(messages[Len(messages)].tool_calls))
            /\ pc' = "chatbot"
       ELSE /\ pc' = "input"
            /\ UNCHANGED messages
    /\ UNCHANGED <<turn, turn_start, resp, bound_calls, chatbot_runs, tool_log, llm_inputs, site>>
    /\ UNCHANGED retriever_vars

Next == ReadPrompt \/ Policy \/ Chatbot \/ Route

Spec == Init /\ [][Next]_vars

\* ------------------------------------------------------------------ rag_tool.py on its own
\* what an invocation of rag_tool leaves behind
RagSearchRan(k, env, run) ==
    /\ retriever_cache' = run.cache
    /\ index_loads' = IF run.loaded
                      THEN [index_loads EXCEPT ![KOrDefault(k)] = @ + 1]
                      ELSE index_loads
    /\ rag_last' = [k |-> KOrDefault(k), env |-> env, miss |-> run.miss, loaded |-> run.loaded,
                    retriever |-> run.retriever, result |-> run.result]

\* one invocation of rag_search, by whichever caller: the whole of rag_tool
RagSearch ==
    /\ rag_calls < MaxCalls
    /\ \E k \in KArgs, env \in RetrieverEnvs :
          RagSearchRan(k, env, RagToolRun(CallQ, k, retriever_cache, env))
    /\ rag_calls' = rag_calls + 1
    /\ UNCHANGED graph_vars

RetrieverNext == RagSearch

\* the process as a sequence of rag_search invocations
RetrieverSpec == Init /\ [][RetrieverNext]_vars


\* ------------------------------------------------------------------ vocabulary of the claims
\* the chatbot node has run in the current turn
ChatbotDone == chatbot_runs >= 1
\* the graph reached its end and the REPL is back at the prompt
TurnCompleted == turn >= 1 /\ pc = "input"
\* an exception left the chatbot node: the turn was aborted
TurnAborted == pc = "raised"
\* the text of the turn's user message
UserText == messages[turn_start + 1].content
\* the assistant messages appended to the history in the current turn
AssistantAppended == {i \in (turn_start + 1)..Len(messages) : messages[i].type = "ai"}
\* the message chatbot returned (when it returned)
Answer == messages[Len(messages)]
\* the grounding context system message of the plain model invocation
Ctx == llm_inputs[1][Len(llm_inputs[1])]
\* the name of a known tool, as a tool name value
Known(name) == name \in {Str(<<"rag_search">>), Str(<<"vision_pdf_search">>)}

\* ------------------------------------------------------------------ C1
\* C1 (as claimed): in every turn there is exactly one tool-bound model
\* invocation, at most one plain model invocation, the chatbot node runs
\* exactly once, and once it has run the turn goes on to its terminal state.
C1_OneRoutingPassAndTermination ==
    /\ bound_calls <= 1
    /\ Len(llm_inputs) <= 1
    /\ chatbot_runs <= 1
    /\ ChatbotDone => bound_calls = 1 /\ pc \in {"route", "input"}

\* ------------------------------------------------------------------ C2
\* C2 (as claimed): when a turn is over, exactly one assistant message has
\* been appended to the history in it; never more than one at any time.
C2_ExactlyOneAssistantMessage ==
    /\ Cardinality(AssistantAppended) <= 1
    /\ ChatbotDone => Cardinality(AssistantAppended) = 1

\* ------------------------------------------------------------------ C3
\* C3 (as claimed): a tool invocation that raises, at whatever call site,
\* does not abort the turn, and the turn ends with an assistant message.
C3_ToolFailureIsCaught ==
    (\E i \in 1..Len(tool_log) : tool_log[i].raised)
        => /\ ~TurnAborted
           /\ Cardinality(AssistantAppended) = 1

\* ------------------------------------------------------------------ C4
\* C4 (as claimed): a response that carries structured tool calls is handled
\* by the structured-call branch with the name and args of its first call,
\* whatever its content is.
C4_StructuredCallWhateverContent ==
    (ChatbotDone /\ resp.tool_calls # <<>>)
        => /\ site = "A"
           /\ Known(resp.tool_calls[1].name)
                => /\ tool_log # <<>>
                   /\ Str(<<tool_log[1].tool>>) = resp.tool_calls[1].name


\* ------------------------------------------------------------------ C5
\* C5: when the response carries structured calls and a tool_code fence, the
\* first tool invoked is the one the first structured call names, with that
\* call's args (no tool at all when that name is unknown), and the only other
\* invocation there can be is the escalation of an empty rag_search result:
\* nothing is run for the fence or for the later calls.
C5_FirstStructuredCallWins ==
    (ChatbotDone /\ resp.tool_calls # <<>> /\ _has_tool_fence(resp.content))
        => /\ site = "A"
           /\ IF Known(resp.tool_calls[1].name)
              THEN /\ tool_log # <<>>
                   /\ Str(<<tool_log[1].tool>>) = resp.tool_calls[1].name
                   /\ tool_log[1].input = resp.tool_calls[1].args
              ELSE tool_log = <<>>
           /\ \A i \in 2..Len(tool_log) :
                 /\ i = 2
                 /\ tool_log[1].tool = "rag_search"
                 /\ Contains(tool_log[1].out, SENTINEL)
                 /\ tool_log[2].tool = "vision_pdf_search"
                 /\ tool_log[2].input = QueryArgs(UserText)

\* C5 witness: a turn completed on a response with two structured calls and
\* a fence naming another tool and query, with a tool run
C5_Witness ==
    /\ TurnCompleted
    /\ Len(resp.tool_calls) = 2
    /\ _has_tool_fence(resp.content)
    /\ Len(tool_log) = 1
    /\ tool_log[1].tool = "vision_pdf_search"

\* ------------------------------------------------------------------ C6
\* C6: when rag_search ran for a resolved tool call (structured or fenced) and
\* its result holds the sentinel, vision_pdf_search is invoked exactly once,
\* with the text of the most recent user message as its query, and when it
\* returns the grounding context of the follow-up model call is tagged
\* vision_pdf_search.
C6_EmptyRagEscalatesToVision ==
    (/\ ChatbotDone
     /\ site \in {"A", "B"}
     /\ tool_log # <<>>
     /\ tool_log[1].tool = "rag_search"
     /\ ~tool_log[1].raised
     /\ Contains(tool_log[1].out, SENTINEL))
        => /\ Len(tool_log) = 2
           /\ tool_log[2].tool = "vision_pdf_search"
           /\ tool_log[2].input = QueryArgs(UserText)
           /\ ~tool_log[2].raised
                => /\ Len(llm_inputs) = 1
                   /\ Ctx.type = "system"
                   /\ Ctx.content[1] = "CONTEXT from"
                   /\ Ctx.content[2] = "vision_pdf_search"
                   /\ SubSeq(Ctx.content, 4, Len(Ctx.content)) = tool_log[2].out

\* C6 witness: a structured rag_search call whose query differs from the user
\* text came back empty and the escalation returned
C6_Witness ==
    /\ TurnCompleted
    /\ site = "A"
    /\ Len(tool_log) = 2
    /\ tool_log[1].tool = "rag_search"
    /\ Get(tool_log[1].input, <<"query">>) # Str(UserText)
    /\ UserText # <<>>
    /\ ~tool_log[2].raised

\* ------------------------------------------------------------------ C7
\* C7: when vision_pdf_search raises as the escalation of an empty rag_search
\* result, the turn is not aborted: the follow-up model call is made with a
\* context tagged "vision failed" that holds the rag_search result, and one
\* assistant message is appended.
C7_VisionFailureIsAbsorbed ==
    (/\ ChatbotDone
     /\ Len(tool_log) = 2
     /\ tool_log[1].tool = "rag_search"
     /\ tool_log[2].tool = "vision_pdf_search"
     /\ tool_log[2].raised)
        => /\ ~TurnAborted
           /\ Len(llm_inputs) = 1
           /\ Ctx.type = "system"
           /\ Ctx.content[2] = "rag_search"
           /\ Ctx.content[3] = "(vision failed:"
           /\ SubSeq(Ctx.content, 6, Len(Ctx.content)) = tool_log[1].out
           /\ Cardinality(AssistantAppended) = 1
           /\ Answer.type = "ai"

\* C7 witness: a turn completed after vision raised in the escalation
C7_Witness ==
    /\ TurnCompleted
    /\ Len(tool_log) = 2
    /\ tool_log[2].tool = "vision_pdf_search"
    /\ tool_log[2].raised

\* ------------------------------------------------------------------ C8
\* C8 (as claimed): on a fence that yields no invocation, or a blank response,
\* without structured call and with a non-empty user text, rag_search is
\* invoked exactly once with the user text, and exactly one plain model
\* invocation is made, whose result is the answer of the turn.
C8_SoftFallbackAnswers ==
    (/\ ChatbotDone
     /\ resp.tool_calls = <<>>
     /\ site \in {"fence", "D"}
     /\ UserText # <<>>)
        => /\ tool_log # <<>>
           /\ tool_log[1].tool = "rag_search"
           /\ tool_log[1].input = QueryArgs(UserText)
           /\ \A i \in 2..Len(tool_log) : tool_log[i].tool # "rag_search"
           /\ Len(llm_inputs) = 1
           /\ ~TurnAborted
           /\ Answer.type = "ai"

\* ------------------------------------------------------------------ C9
\* C9 (as claimed): on the soft-fallback path (fence without invocation, or
\* blank) with no user text, no tool and no plain model invocation happens
\* and the answer is the original response, unchanged.
C9_NoUserTextKeepsResponse ==
    (/\ ChatbotDone
     /\ site \in {"fence", "D"}
     /\ UserText = <<>>)
        => /\ tool_log = <<>>
           /\ llm_inputs = <<>>
           /\ ~TurnAborted
           /\ Answer = resp

\* C9 (amended): with no user text no tool and no plain model invocation
\* happens; on a fence without invocation the answer is the original
\* response, on a blank response it is the fixed "I couldn't generate a
\* response" message.
C9_NoUserTextAmended ==
    (/\ ChatbotDone
     /\ site \in {"fence", "D"}
     /\ UserText = <<>>)
        => /\ tool_log = <<>>
           /\ llm_inputs = <<>>
           /\ ~TurnAborted
           /\ site = "fence" => Answer = resp
           /\ site = "D" => Answer = AIMessage(COULD_NOT, <<>>)

\* C9 witness: a blank response met an empty user text, in a session whose
\* earlier turn had a user text
C9_Witness ==
    /\ TurnCompleted
    /\ turn = 2
    /\ site = "D"
    /\ UserText = <<>>
    /\ messages[1].content # <<>>

\* ------------------------------------------------------------------ C10

\* C10 (as claimed): each of these fences takes the soft-fallback path, not
\* the tool-execution path.
C10_UnknownToolIsUnparseable ==
    (ChatbotDone /\ resp \in {UnknownJsonFence, UnknownCallFence, FreeTextFence})
        => site = "fence"

\* C10 (amended): a call-like body naming an unknown tool and a body that
\* matches nothing take the soft-fallback path; a JSON body naming an unknown
\* tool is taken as an invocation of that tool and the turn answers that the
\* tool is unknown, with no tool and no further model invocation.
C10_UnknownToolAmended ==
    /\ (ChatbotDone /\ resp \in {UnknownCallFence, FreeTextFence}) => site = "fence"
    /\ (ChatbotDone /\ resp = UnknownJsonFence)
          => /\ site = "B"
             /\ tool_log = <<>>
             /\ llm_inputs = <<>>
             /\ ~TurnAborted
             /\ Answer = UnknownTool(Str(<<"calculator">>))

\* C10 witness: a turn completed on the call-like fence naming an unknown tool
C10_Witness ==
    /\ TurnCompleted
    /\ resp = UnknownCallFence
    /\ site = "fence"
    /\ UserText # <<>>

\* ------------------------------------------------------------------ C11
\* the fences whose body is one of the two bare call forms
CallFormFence(T, q) == {Fenced(PositionalCall(T, q)), Fenced(KeywordCall(T, q))}

\* C11 (as claimed): for each known tool T and each query text q, with a
\* comma or an apostrophe in it or without, a fence whose body is T("q") or
\* T(query="q") is taken as an invocation of T and T is invoked with args
\* exactly {"query": q}.
C11_CallFormExtractedVerbatim ==
    \A T \in {"rag_search", "vision_pdf_search"}, q \in {FenceQ, PunctQ, ApostropheQ} :
        (ChatbotDone /\ resp.tool_calls = <<>> /\ resp.content \in CallFormFence(T, q))
            => /\ site = "B"
               /\ tool_log # <<>>
               /\ tool_log[1].tool = T
               /\ tool_log[1].input = QueryArgs(q)

\* ------------------------------------------------------------------ C12
\* C12 (as claimed): for each known tool T, a fence whose body is
\* print(T.method(query="q")) is taken as an invocation of T and T is invoked
\* with args {"query": q}, like the two bare call forms.
C12_PrintFormExtracted ==
    \A T \in {"rag_search", "vision_pdf_search"} :
        (ChatbotDone /\ resp.tool_calls = <<>> /\ resp.content = Fenced(PrintCall(T, FenceQ)))
            => /\ site = "B"
               /\ tool_log # <<>>
               /\ tool_log[1].tool = T
               /\ tool_log[1].input = QueryArgs(FenceQ)

\* ------------------------------------------------------------------ C13
\* the JSON fences of the model's responses that name a known tool: the
\* name N, the parameters P as written, and P as a value
JsonFences ==
    { [N |-> "rag_search", text |-> JsonQuery(FenceQ), P |-> QueryArgs(FenceQ)],
      [N |-> "vision_pdf_search", text |-> <<"{", "}">>, P |-> EmptyDict],
      [N |-> "vision_pdf_search", text |-> JsonQuery(PatternLikeQ), P |-> QueryArgs(PatternLikeQ)],
      [N |-> "rag_search",
       text |-> <<"{", DQ, "query", DQ, ":", WS, DQ>> \o CallQ
                    \o <<DQ, ",", WS, DQ, "k", DQ, ":", WS, "1", "}">>,
       P |-> Obj(<< <<"query">>, <<"k">> >>, << Str(CallQ), Num("1") >>)] }

\* C13: a response without structured call whose fence body is the JSON
\* object {"name": N, "parameters": P} with N a known tool is taken as a
\* fenced invocation: the first tool invoked is N, with args P, also when
\* the body holds text that one of the call patterns would match.
C13_JsonFenceInvokesNamedTool ==
    \A f \in JsonFences :
        (ChatbotDone /\ resp = AIMessage(Fenced(JsonBody(f.N, f.text)), <<>>))
            => /\ site = "B"
               /\ tool_log # <<>>
               /\ tool_log[1].tool = f.N
               /\ tool_log[1].input = f.P

\* C13 witness: a turn completed on the JSON fence that names
\* vision_pdf_search and holds a call of rag_search in its query text
C13_Witness ==
    /\ TurnCompleted
    /\ resp = JsonOverPattern
    /\ site = "B"
    /\ Len(tool_log) = 1
    /\ tool_log[1].tool = "vision_pdf_search"
    /\ tool_log[1].input = QueryArgs(PatternLikeQ)
    /\ MatchPatterns(FenceBody(resp.content)).found

\* ------------------------------------------------------------------ C14
\* C14: the session history is append-only: every step of every node leaves
\* the messages it found in place and in order, and can only add messages
\* after them; so the history at the start of a turn is a prefix of the
\* history at its end.
C14_HistoryIsAppendOnly ==
    [][/\ Len(messages') >= Len(messages)
       /\ SubSeq(messages', 1, Len(messages)) = messages]_vars

\* C14 witness: a second turn completed with a tool run, on top of the three
\* messages of a first turn in which the user typed something else
C14_Witness ==
    /\ TurnCompleted
    /\ turn = 2
    /\ turn_start = 3
    /\ Len(messages) = 6
    /\ tool_log # <<>>
    /\ messages[1].content # messages[4].content

\* ------------------------------------------------------------------ C15
\* the failure modes of the last rag_search invocation
StoreMissing == rag_last.miss /\ ~rag_last.env.isdir
LoadFailed == rag_last.miss /\ rag_last.env.isdir /\ ~rag_last.env.loadable
BackendUnreachable == ~rag_last.env.backend

\* C15 (as claimed): when the store directory is missing, when the index
\* fails to load, and when the embedding backend is unreachable while the
\* query is answered, rag_search does not raise and returns a text that
\* holds the sentinel.
C15_RagFailuresGiveSentinel ==
    (rag_calls >= 1 /\ (StoreMissing \/ LoadFailed \/ BackendUnreachable))
        => /\ ~rag_last.result.raised
           /\ Contains(rag_last.result.out, SENTINEL)

\* ------------------------------------------------------------------ C16
\* the tool name the classification resolved: that of the first structured
\* call in branch A, that of the fenced invocation in branch B
ResolvedName ==
    IF site = "A" THEN resp.tool_calls[1].name
    ELSE _extract_tool_invocation_from_fence(resp.content).name

\* C16: when the resolved tool name is neither rag_search nor
\* vision_pdf_search, the turn is answered by a message saying that the tool
\* is unknown and naming it; no tool is invoked and no model invocation
\* follows the tool-bound one.
C16_UnknownToolAnswered ==
    (ChatbotDone /\ site \in {"A", "B"} /\ ~Known(ResolvedName))
        => /\ ~TurnAborted
           /\ tool_log = <<>>
           /\ llm_inputs = <<>>
           /\ bound_calls = 1
           /\ Cardinality(AssistantAppended) = 1
           /\ Answer.type = "ai"
           /\ Answer.content = <<"(Unknown tool">> \o ResolvedName.s \o <<")">>
           /\ Answer.tool_calls = <<>>

\* C16 witness: a session of two completed turns, the first answered on a
\* structured call of an unknown tool, the second on a JSON fence naming one
C16_Witness ==
    /\ TurnCompleted
    /\ turn = 2
    /\ messages[3].content = <<"(Unknown tool", "calculator", ")">>
    /\ site = "B"
    /\ resp = UnknownJsonFence
    /\ ResolvedName = Str(<<"calculator">>)

\* ------------------------------------------------------------------ C17
\* a known tool was executed in the current turn: the first invocation of
\* the turn passed the input schema, so the body of the tool ran
ToolExecuted == tool_log # <<>> /\ ValidInput(tool_log[1].input)
\* the history the chatbot node was given: the session up to and including
\* the policy message of the current turn
TurnHistory == SubSeq(messages, 1, turn_start + 2)

\* C17 (as claimed): in every turn in which a known tool was executed,
\* directly, with escalation, with failed escalation or by soft fallback, the
\* answer comes from exactly one plain model invocation whose input is the
\* full history followed by one system message holding the grounding
\* context, which begins with a tag naming rag_search or vision_pdf_search.
C17_GroundedAnswerFromOnePlainCall ==
    (ChatbotDone /\ ToolExecuted)
        => /\ ~TurnAborted
           /\ Len(llm_inputs) = 1
           /\ llm_inputs[1] = Append(TurnHistory, Ctx)
           /\ Ctx.type = "system"
           /\ Ctx.content[1] = "CONTEXT from"
           /\ Ctx.content[2] \in {"rag_search", "vision_pdf_search"}
           /\ Cardinality(AssistantAppended) = 1
           /\ Answer.type = "ai"

\* ------------------------------------------------------------------ C18
\* C18 (as claimed): over any sequence of rag_search invocations with any
\* mix of k values, the index is loaded at most once for each pair
\* (STORE_DIR, k).
C18_IndexLoadedOncePerKey ==
    \A k \in Ks : index_loads[k] <= 1

UserOf(t) == messages[3 * t - 2]
PolicyOf(t) == messages[3 * t - 1]
AssistantOf(t) == messages[3 * t]

\* C20: when a turn is completed the history holds, for each turn so far,
\* exactly three messages in this order: the user message, the policy system
\* message, one assistant message.  No grounding context is stored, and of a
\* turn that used a tool the stored assistant message is not the raw routing
\* response: it carries neither tool_calls nor a tool_code fence.
C20_ThreeMessagesPerTurn ==
    TurnCompleted
        => /\ Len(messages) = 3 * turn
           /\ turn_start = 3 * (turn - 1)
           /\ \A t \in 1..turn :
                 /\ UserOf(t).type = "human"
                 /\ PolicyOf(t) = SystemMessage(POLICY)
                 /\ AssistantOf(t).type = "ai"
           /\ \A i \in 1..Len(messages) :
                 messages[i].content = <<>> \/ messages[i].content[1] # "CONTEXT from"
           /\ tool_log # <<>>
                 => /\ Answer.tool_calls = <<>>
                    /\ ~_has_tool_fence(Answer.content)
                    /\ resp.content # <<>> => Answer # resp

\* C20 witness: two turns completed, the first answered in plain text, the
\* second through a fenced rag_search call escalated to vision
C20_Witness ==
    /\ TurnCompleted
    /\ turn = 2
    /\ AssistantOf(1).content = <<"Hello">>
    /\ site = "B"
    /\ Len(tool_log) = 2
    /\ Len(llm_inputs) = 1
    /\ Len(messages) = 6

\* ------------------------------------------------------------------ C21
\* the first invocation of the turn was rag_search and it returned at least
\* one document snippet
RetrievedSome ==
    /\ tool_log # <<>>
    /\ tool_log[1].tool = "rag_search"
    /\ ~tool_log[1].raised
    /\ Len(tool_log[1].out) >= 2
    /\ tool_log[1].out[2] = "- ["

\* C21 (as claimed): whenever rag_search returns at least one document
\* snippet, whatever its text, vision_pdf_search is not invoked and the
\* grounding context is tagged as coming from rag_search.
C21_EscalationOnlyOnZeroDocuments ==
    (ChatbotDone /\ RetrievedSome)
        => /\ Len(tool_log) = 1
           /\ Len(llm_inputs) = 1
           /\ Ctx.content[1] = "CONTEXT from"
           /\ Ctx.content[2] = "rag_search"
           /\ Ctx.content[3] = ":"

=============================================================================
